---- MODULE Spec2Model ----
(***************************************************************************)
(* Attendance guardian: the face-recognition monitor (React component      *)
(* FaceRecognitionMonitor), the shared FaceRecognitionService and the      *)
(* notification store, as a state machine.                                 *)
(*                                                                         *)
(* Every handler of the component is a closure over the values of the      *)
(* render that created it.  The interval callback created by               *)
(* startMonitoring therefore keeps reading the isBreakTime,                *)
(* currentClassHour and isProcessing of the render in which monitoring was *)
(* started; the model records those values with each timer and with each   *)
(* callback invocation ("task").  Every await of the code is a point where *)
(* other callbacks may run, so every await ends one action.                *)
(***************************************************************************)
EXTENDS Integers, Sequences, FiniteSets, TLC

\* ------------------------------------------------------------------ bounds
MaxCaptures == 2   \* getPhoto requests (ticks that capture + manual captures)
MaxStarts == 2     \* calls of startMonitoring
MaxAddStudent == 1 \* enrolments with a photo (StudentManager.addStudent)
MaxSkip == 2       \* minutes between two firings of a one-minute timer
MaxDim == 2        \* length of the vectors given to calculateSimilarity
MaxFaces == 2      \* detected regions given to matchFaceWithStudents
MaxDetections == 2 \* raw detections the detector returns for one image

\* ------------------------------------------------------------- the inputs
\* The enrolled students (rows of public.students) the model draws rosters from.
Students == {"s1", "s2"}

HHMM(h, m) == h * 60 + m

\* The wall clock readings the model visits, as minutes of the day
\* (toTimeString().slice(0, 5) truncates to the minute): in the first class
\* window, in the first break, in a later class window, after the last one.
ClockTimes == {HHMM(9, 0), HHMM(10, 46), HHMM(11, 0), HHMM(16, 21)}

\* ---------------------------------------------------------- the schedule
schedules ==
  << [start |-> HHMM(9, 0),   end |-> HHMM(10, 0),  time |-> "09:00:00", isBreak |-> FALSE],
     [start |-> HHMM(10, 0),  end |-> HHMM(10, 45), time |-> "10:00:00", isBreak |-> FALSE],
     [start |-> HHMM(10, 46), end |-> HHMM(10, 59), time |-> "10:46:00", isBreak |-> TRUE],
     [start |-> HHMM(11, 0),  end |-> HHMM(12, 0),  time |-> "11:00:00", isBreak |-> FALSE],
     [start |-> HHMM(12, 0),  end |-> HHMM(12, 45), time |-> "12:00:00", isBreak |-> FALSE],
     [start |-> HHMM(12, 46), end |-> HHMM(13, 29), time |-> "12:46:00", isBreak |-> TRUE],
     [start |-> HHMM(13, 30), end |-> HHMM(14, 30), time |-> "13:30:00", isBreak |-> FALSE],
     [start |-> HHMM(14, 30), end |-> HHMM(15, 30), time |-> "14:30:00", isBreak |-> FALSE],
     [start |-> HHMM(15, 31), end |-> HHMM(15, 44), time |-> "15:31:00", isBreak |-> TRUE],
     [start |-> HHMM(15, 45), end |-> HHMM(16, 20), time |-> "15:45:00", isBreak |-> FALSE] >>

\* The minutes of one day.
Minutes == 0..(HHMM(24, 0) - 1)

\* The string 'HH:MM' of minute t, as toTimeString().slice(0, 5) gives it and
\* as the schedule literals are written: its four digits.
TimeString(t) == << t \div 600, (t \div 60) % 10, (t % 60) \div 10, t % 10 >>

\* a < b on strings: the first differing character decides.
StrLess(a, b) ==
  \E i \in 1..Len(a) : a[i] < b[i] /\ \A j \in 1..(i - 1) : a[j] = b[j]

\* A comparison that excludes equal strings.
StrLeq_Strict(a, b) == StrLess(a, b)

\* a <= b on strings, the comparison of `currentTime >= schedule.start` and
\* `currentTime <= schedule.end`.
StrLeq(a, b) == a = b \/ StrLess(a, b)

\* schedules.find(s => currentTime >= s.start && currentTime <= s.end):
\* the index of the first window containing t, 0 when there is none.
RECURSIVE FindSchedule(_, _)
FindSchedule(t, i) ==
  IF i > Len(schedules) THEN 0
  ELSE IF /\ StrLeq(TimeString(schedules[i].start), TimeString(t))
          /\ StrLeq(TimeString(t), TimeString(schedules[i].end))
         THEN i
  ELSE FindSchedule(t, i + 1)

\* What updateCurrentClassHour stores for the clock reading t.
ResolveSchedule(t) ==
  LET i == FindSchedule(t, 1)
  IN IF i # 0
       THEN [classHour |-> schedules[i].time, isBreak |-> schedules[i].isBreak]
       ELSE [classHour |-> "", isBreak |-> FALSE]

ClassHours == {schedules[i].time : i \in 1..Len(schedules)}

VARIABLES
  now,                    \* the clock reading of the last updateCurrentClassHour
  currentClassHour,       \* React state
  isBreakTime,            \* React state
  isMonitoring,           \* React state
  mounted,                \* the component is mounted (the cleanup of the mount
                          \*   effect has not run)
  isProcessing,           \* React state
  isInitializing,         \* React state
  students,               \* React state: the roster fetched on mount
  monitoringIntervalRef,  \* id of the interval held by the ref, 0 for null
  timers,                 \* live intervals: id -> values closed over
  nStarts,                \* intervals created so far
  tasks,                  \* callback invocations: id -> record
  nCaptures,              \* invocations created so far
  lastResult,             \* how the invocation that ended last ended
  attendance_records,     \* table rows of today: [student_id, class_hour, status]
  duty_leaves,            \* table rows of today: [student_id, class_hour]
  notifications,          \* table rows of today: [student_id, class_hour]
  issued,                 \* inserts sent to notifications, per (student, class hour)
  initialized,            \* FaceRecognitionService.initialized
  detectorLoads,          \* successful loads of the detector pipeline
  embedderLoads,          \* successful loads of the embedder pipeline
  loadFailed,             \* some pipeline load has failed
  initCalls,              \* initialize() calls awaiting a pipeline load
  nAddStudent,            \* enrolments with a photo so far
  markingNow,             \* AttendanceMarking: the clock reading of its last
                          \*   updateCurrentClassHour
  markingClassHour,       \* AttendanceMarking: React state currentClassHour
  attendance,             \* AttendanceMarking: React state, student -> status
  dutyLeaves,             \* AttendanceMarking: React state, student -> flag
  loading,                \* AttendanceMarking: React state
  results,                \* detectFaces: what the detector pipeline returns
  faces,                  \* detectFaces: what it returns
  embedding1,             \* calculateSimilarity: first argument
  embedding2,             \* calculateSimilarity: second argument
  similarity,             \* calculateSimilarity: what it returns
  faceEmbeddings,         \* matchFaceWithStudents: the embedding of each region
  studentList,            \* matchFaceWithStudents: the students argument
  matches,                \* matchFaceWithStudents: what it returns
  returned                \* the traced call of the service has returned

\* The monitor, the store and the loading of the service.
sessionVars ==
  << now, currentClassHour, isBreakTime, isMonitoring, mounted, isProcessing,
     isInitializing, students, monitoringIntervalRef, timers, nStarts, tasks,
     nCaptures, lastResult, attendance_records, duty_leaves, notifications, issued,
     initialized, detectorLoads, embedderLoads, loadFailed, initCalls,
     nAddStudent >>

markingVars == << markingNow, markingClassHour, attendance, dutyLeaves, loading >>

\* One traced call of detectFaces, calculateSimilarity or matchFaceWithStudents.
callVars == << results, faces, embedding1, embedding2, similarity,
               faceEmbeddings, studentList, matches, returned >>

\* What the steps of the monitor leave alone.
sideVars == << markingVars, callVars >>

vars == << sessionVars, sideVars >>

taskVars == << tasks, nCaptures, lastResult >>
monitorVars == << isMonitoring, monitoringIntervalRef, timers, nStarts, mounted >>
clockVars == << now, currentClassHour, isBreakTime >>
recordVars == << attendance_records, duty_leaves, students >>
storeVars == << attendance_records, duty_leaves, notifications, issued,
               students >>
serviceVars == << initialized, detectorLoads, embedderLoads, loadFailed,
                  initCalls, nAddStudent >>

\* ------------------------------------------------------------- the store
MaxRecords == 1    \* attendance and duty-leave rows of today, both tables together

\* The class hours the clock readings of the model resolve to.
RecordHours == {ResolveSchedule(t).classHour : t \in {u \in ClockTimes :
                   ResolveSchedule(u).classHour # "" /\ ~ResolveSchedule(u).isBreak}}

\* status TEXT CHECK (status IN ('present', 'absent'))
AttendanceRows ==
  [student_id : Students, class_hour : RecordHours, status : {"present", "absent"}]

DutyLeaveRows == [student_id : Students, class_hour : RecordHours]

\* UNIQUE(student_id, date, class_hour), for one date.
UniqueKey(rows) ==
  \A r1, r2 \in rows :
    (r1.student_id = r2.student_id /\ r1.class_hour = r2.class_hour) => r1 = r2

\* supabase.from(table).select('*').eq('student_id', s).eq('date', today)
\*   .eq('class_hour', h)
SelectRows(table, s, h) ==
  {r \in table : r.student_id = s /\ r.class_hour = h}

\* What a query resolves to. supabase-js does not reject on a failed request:
\* it resolves to { data: null, error }. The code reads data only.
QueryResult(rows, outcome) ==
  IF outcome = "ok" THEN [null |-> FALSE, rows |-> rows]
  ELSE [null |-> TRUE, rows |-> {}]

\* !data || data.length === 0
NoRows(data) == data.null \/ data.rows = {}

LookupOutcomes == {"ok", "error", "throw"}

\* The decision's condition for raising an alert:
\* (!attendanceData || attendanceData.length === 0) &&
\* (!dutyLeaveData || dutyLeaveData.length === 0)
BothMissing(attendanceEmpty, dutyLeaveData) ==
  attendanceEmpty /\ NoRows(dutyLeaveData)

\* The spec's predicate: a present record or a duty-leave record exists.
HasValidExcuse(s, h) ==
  \/ \E r \in attendance_records :
       r.student_id = s /\ r.class_hour = h /\ r.status = "present"
  \/ SelectRows(duty_leaves, s, h) # {}

OnlyAbsent(s, h) ==
  /\ \E r \in attendance_records :
       r.student_id = s /\ r.class_hour = h /\ r.status = "absent"
  /\ ~HasValidExcuse(s, h)

Stored(table, s, h) == SelectRows(table, s, h) # {}

\* ------------------------------------------------------------------ tasks
\* One running invocation of the interval callback or of manualCapture.
\*   origin, timer        who created it
\*   classHour, isBreak, isProc   the values its closure reads
\*   pc                   the await it is suspended at
\*   matches              the students still to decide, the current one first
\*                        (the confidence of a match only goes into the text of
\*                        the alert message)
\*   attEmpty             whether attendanceData of the current match was empty
\*   had                  a notification for the current match was stored when
\*                        its decision began
\*   failed               a query of the current match resolved to an error
\*                        result ({ data: null, error })
\*   skipped              a query of an earlier match of this pass threw and
\*                        that match was skipped
NewTask(origin, timer, c) ==
  [origin |-> origin, timer |-> timer, classHour |-> c.classHour,
   isBreak |-> c.isBreak, isProc |-> c.isProc, pc |-> "photo",
   matches |-> << >>, attEmpty |-> FALSE, had |-> FALSE, failed |-> FALSE,
   skipped |-> FALSE]

\* The decision of the first match of ms begins: the attendance query is sent.
Deciding(t, ms, stored) ==
  [t EXCEPT !.pc = "att", !.matches = ms, !.attEmpty = FALSE, !.failed = FALSE,
            !.had = Stored(stored, Head(ms), t.classHour)]

TaskIds == DOMAIN tasks

At(pc) == {id \in TaskIds : tasks[id].pc = pc}

\* The pcs between setIsProcessing(true) and the finally block.
PassPcs == {"load", "init", "infer", "match", "att", "dl", "notif", "insert"}

DecisionPcs == {"att", "dl", "notif", "insert"}

InPass == {id \in TaskIds : tasks[id].pc \in PassPcs}

CurrentStudent(id) == Head(tasks[id].matches)

CurrentKey(id) == << CurrentStudent(id), tasks[id].classHour >>

\* The invocation id goes on as t.
Continues(id, t) ==
  /\ tasks' = [tasks EXCEPT ![id] = t]
  /\ UNCHANGED lastResult

\* The invocation id returns.
Returns(id, result) ==
  /\ tasks' = [i \in TaskIds \ {id} |-> tasks[i]]
  /\ lastResult' = result

\* The lists matchFaceWithStudents can return: Object.values(uniqueMatches),
\* one entry per student id, in any order.
RECURSIVE SeqsOver(_, _)
SeqsOver(S, n) ==
  IF n = 0 THEN {<< >>}
  ELSE LET shorter == SeqsOver(S, n - 1)
       IN shorter \cup {Append(q, x) : q \in shorter, x \in S}

MatchLists ==
  {ms \in SeqsOver(students, Cardinality(students)) :
     \A i, j \in 1..Len(ms) : ms[i] = ms[j] => i = j}

\* ------------------------------------------------------------------- Init
\* The component has been mounted at clock reading t: the mount effect has run
\* updateCurrentClassHour, monitoring is off, nothing is in flight.
Mounted(t) ==
  /\ now = t
  /\ currentClassHour = ResolveSchedule(t).classHour
  /\ isBreakTime = ResolveSchedule(t).isBreak
  /\ isMonitoring = FALSE
  /\ mounted = TRUE
  /\ isProcessing = FALSE
  /\ monitoringIntervalRef = 0
  /\ timers = << >>
  /\ nStarts = 0
  /\ tasks = << >>
  /\ nCaptures = 0
  /\ lastResult = ""
  /\ nAddStudent = 0

\* AttendanceMarking is not mounted: its state holds the useState defaults.
MarkingUnmounted ==
  /\ markingNow = 0
  /\ markingClassHour = ""
  /\ attendance = [s \in Students |-> ""]
  /\ dutyLeaves = [s \in Students |-> FALSE]
  /\ loading = FALSE

\* The number 0 as a similarity: a similarity is the quotient dot / sqrt(nn),
\* kept as the pair of the integers dot and nn.
Zero == [dot |-> 0, nn |-> 1]

\* A call of the service with these arguments has not returned yet: rs for
\* detectFaces, e1 and e2 for calculateSimilarity, fe and sl for
\* matchFaceWithStudents.
Call(rs, e1, e2, fe, sl) ==
  /\ results = rs
  /\ faces = << >>
  /\ embedding1 = e1
  /\ embedding2 = e2
  /\ similarity = Zero
  /\ faceEmbeddings = fe
  /\ studentList = sl
  /\ matches = << >>
  /\ returned = FALSE

\* No call of the service is traced.
NoCall == Call(<< >>, << >>, << >>, << >>, << >>)

SideIdle == MarkingUnmounted /\ NoCall

\* initializeFaceRecognition, called by the mount effect, awaits the detector.
ServiceLoading ==
  /\ isInitializing = TRUE
  /\ initialized = FALSE
  /\ detectorLoads = 0
  /\ embedderLoads = 0
  /\ loadFailed = FALSE
  /\ initCalls = {[caller |-> "monitor", task |-> 0, pc |-> "detector"]}

\* initializeFaceRecognition has returned, both pipelines loaded.
ServiceReady ==
  /\ isInitializing = FALSE
  /\ initialized = TRUE
  /\ detectorLoads = 1
  /\ embedderLoads = 1
  /\ loadFailed = FALSE
  /\ initCalls = {}

\* The tables of today: roster, at most n attendance and duty-leave rows, for
\* the class hours hs, and no notification yet.
Tables(roster, n, hs) ==
  /\ students = roster
  /\ attendance_records \in
       {a \in SUBSET {r \in AttendanceRows :
                        r.student_id \in roster /\ r.class_hour \in hs} :
          UniqueKey(a)}
  /\ duty_leaves \in
       {d \in SUBSET {r \in DutyLeaveRows :
                        r.student_id \in roster /\ r.class_hour \in hs} :
          UniqueKey(d)}
  /\ Cardinality(attendance_records) + Cardinality(duty_leaves) <= n
  /\ notifications = {}
  /\ issued = [k \in Students \X RecordHours |-> 0]

Init ==
  /\ Mounted(HHMM(9, 0))
  /\ ServiceLoading
  /\ SideIdle
  /\ Tables(Students, MaxRecords, RecordHours)

\* ------------------------------------------------------------- the clock
\* updateCurrentClassHour, run by the one-minute interval of the mount effect,
\* reads the clock (t, later than the last reading, within one date).
updateCurrentClassHour(t) ==
  /\ mounted
  /\ t > now
  /\ now' = t
  /\ currentClassHour' = ResolveSchedule(t).classHour
  /\ isBreakTime' = ResolveSchedule(t).isBreak
  /\ UNCHANGED << sideVars, isProcessing, isInitializing, monitorVars, taskVars,
                  storeVars, serviceVars >>

\* ----------------------------------------------------------- the service
\* FaceRecognitionService.initialize up to its first await:
\* `if (this.initialized) return;`, else the detector pipeline is requested.
\* TRUE when the call has to wait for a load.
InitializeAwaits == ~initialized

InitCall(caller, task) == [caller |-> caller, task |-> task, pc |-> "detector"]

\* What the caller of initialize() does when the call ends.
\*   monitor     initializeFaceRecognition: finally setIsInitializing(false)
\*   addStudent  goes on to create the embedding, or to its catch block
\*   detectFaces goes on to the inference; a failure leaves detectFaces as an
\*               exception, which processImageForFaceRecognition catches
InitializeReturns(c, ok) ==
  /\ isInitializing' = IF c.caller = "monitor" THEN FALSE ELSE isInitializing
  /\ IF c.caller = "detectFaces"
       THEN IF ok
              THEN /\ Continues(c.task, [tasks[c.task] EXCEPT !.pc = "infer"])
                   /\ UNCHANGED isProcessing
              ELSE /\ Returns(c.task, "initfail")
                   /\ isProcessing' = FALSE
       ELSE UNCHANGED << tasks, lastResult, isProcessing >>

\* this.detector = await pipeline('object-detection', ...)
LoadDetector(c, ok) ==
  /\ c \in initCalls /\ c.pc = "detector"
  /\ IF ok
       THEN /\ detectorLoads' = detectorLoads + 1
            /\ initCalls' = (initCalls \ {c}) \cup {[c EXCEPT !.pc = "embedder"]}
            /\ UNCHANGED << loadFailed, isInitializing, tasks, lastResult,
                            isProcessing >>
       ELSE /\ loadFailed' = TRUE
            /\ initCalls' = initCalls \ {c}
            /\ InitializeReturns(c, FALSE)
            /\ UNCHANGED detectorLoads
  /\ UNCHANGED << sideVars, clockVars, monitorVars, nCaptures, storeVars, initialized,
                  embedderLoads, nAddStudent >>

\* this.embedder = await pipeline('feature-extraction', ...);
\* this.initialized = true
LoadEmbedder(c, ok) ==
  /\ c \in initCalls /\ c.pc = "embedder"
  /\ initCalls' = initCalls \ {c}
  /\ IF ok
       THEN /\ embedderLoads' = embedderLoads + 1
            /\ initialized' = TRUE
            /\ UNCHANGED loadFailed
       ELSE /\ loadFailed' = TRUE
            /\ UNCHANGED << embedderLoads, initialized >>
  /\ InitializeReturns(c, ok)
  /\ UNCHANGED << sideVars, clockVars, monitorVars, nCaptures, storeVars, detectorLoads,
                  nAddStudent >>

\* StudentManager.addStudent with a photo: await faceRecognitionService.initialize()
AddStudentInitialize ==
  /\ nAddStudent < MaxAddStudent
  /\ nAddStudent' = nAddStudent + 1
  /\ initCalls' = IF InitializeAwaits
                    THEN initCalls \cup {InitCall("addStudent", 0)}
                    ELSE initCalls
  /\ UNCHANGED << sideVars, clockVars, isProcessing, isInitializing, monitorVars,
                  taskVars, storeVars, initialized, detectorLoads,
                  embedderLoads, loadFailed >>

\* ----------------------------------------------------------- the monitor
\* The values a handler created by the current render closes over.
Closure == [classHour |-> currentClassHour, isBreak |-> isBreakTime,
            isProc |-> isProcessing]

\* A startMonitoring without the isInitializing guard.
StartRefused_Never == FALSE

\* The guard of startMonitoring: `if (isInitializing) { toast; return; }`
StartRefused == isInitializing

\* startMonitoring: setIsMonitoring(true) and a new interval, whose id
\* overwrites the ref. A refused call changes nothing.
startMonitoring ==
  /\ mounted
  /\ nStarts < MaxStarts
  /\ ~StartRefused
  /\ isMonitoring' = TRUE
  /\ nStarts' = nStarts + 1
  /\ timers' = (nStarts + 1) :> Closure @@ timers
  /\ monitoringIntervalRef' = nStarts + 1
  /\ UNCHANGED << sideVars, mounted, clockVars, isProcessing, isInitializing,
                  taskVars, storeVars, serviceVars >>

\* The intervals left alive by
\* `if (ref.current) { clearInterval(ref.current); ref.current = null; }`
AfterClear(ref) == [i \in DOMAIN timers \ {ref} |-> timers[i]]

\* stopMonitoring: setIsMonitoring(false) and the interval held by the ref is
\* cleared. A call that finds monitoring off and the ref null changes nothing.
stopMonitoring ==
  /\ mounted
  /\ isMonitoring \/ monitoringIntervalRef # 0
  /\ isMonitoring' = FALSE
  /\ timers' = AfterClear(monitoringIntervalRef)
  /\ monitoringIntervalRef' = 0
  /\ UNCHANGED << sideVars, nStarts, mounted, clockVars, isProcessing,
                  isInitializing, taskVars, storeVars, serviceVars >>

\* The cleanup of the mount effect, run when the component unmounts: the
\* minute interval is cleared and so is the interval the ref holds, if any.
\* Intervals the ref does not hold and invocations in flight go on.
Unmount ==
  /\ mounted
  /\ mounted' = FALSE
  /\ timers' = AfterClear(monitoringIntervalRef)
  /\ UNCHANGED << sideVars, isMonitoring, monitoringIntervalRef, nStarts,
                  clockVars, isProcessing, isInitializing, taskVars, storeVars,
                  serviceVars >>

\* The guard of the interval callback: `if (isBreakTime || !currentClassHour) return;`
\* read from the closure c of the callback.
TickSuppressed(c) == c.isBreak \/ c.classHour = ""

\* The interval callback of timer i fires and requests a photo. A suppressed
\* callback returns at once and changes nothing.
Tick(i) ==
  /\ i \in DOMAIN timers
  /\ nCaptures < MaxCaptures
  /\ ~TickSuppressed(timers[i])
  /\ nCaptures' = nCaptures + 1
  /\ tasks' = (nCaptures + 1) :> NewTask("tick", i, timers[i]) @@ tasks
  /\ UNCHANGED << sideVars, lastResult, clockVars, isProcessing, isInitializing,
                  monitorVars, storeVars, serviceVars >>

\* The guard of manualCapture: `if (isProcessing) return;`
ManualRefused == isProcessing

\* manualCapture up to its first await: the photo request.
manualCapture ==
  /\ mounted
  /\ nCaptures < MaxCaptures
  /\ ~ManualRefused
  /\ nCaptures' = nCaptures + 1
  /\ tasks' = (nCaptures + 1) :> NewTask("manual", 0, Closure) @@ tasks
  /\ UNCHANGED << sideVars, lastResult, clockVars, isProcessing, isInitializing,
                  monitorVars, storeVars, serviceVars >>

\* -------------------------------------------------------------- the pass
\* The guard of processImageForFaceRecognition: `if (isProcessing) return;`
\* read from the closure of the invocation t.
PassRefused(t) == t.isProc

\* getPhoto resolves or rejects. With a data URL the invocation calls
\* processImageForFaceRecognition, which runs to its first await:
\* the guard, setIsProcessing(true), loadImageFromDataUrl.
GetPhotoReturns(id, outcome) ==
  /\ id \in At("photo")
  /\ CASE outcome = "throw" ->
            Returns(id, "capturefail") /\ UNCHANGED isProcessing
       [] outcome = "empty" ->
            Returns(id, "nophoto") /\ UNCHANGED isProcessing
       [] outcome = "dataUrl" ->
            IF PassRefused(tasks[id])
              THEN Returns(id, "refused") /\ UNCHANGED isProcessing
              ELSE /\ Continues(id, [tasks[id] EXCEPT !.pc = "load"])
                   /\ isProcessing' = TRUE
  /\ UNCHANGED << sideVars, clockVars, isInitializing, monitorVars, nCaptures, storeVars,
                  serviceVars >>

\* A pass that treats a failed image load as fatal for the session: it also
\* does what stopMonitoring does.
LoadImageReturns_Fatal(id, ok) ==
  /\ id \in At("load")
  /\ IF ~ok
       THEN /\ Returns(id, "loadfail")
            /\ isProcessing' = FALSE
            /\ isMonitoring' = FALSE
            /\ timers' = [i \in DOMAIN timers \ {monitoringIntervalRef} |-> timers[i]]
            /\ monitoringIntervalRef' = 0
            /\ UNCHANGED << nStarts, mounted >>
       ELSE /\ Continues(id, [tasks[id] EXCEPT !.pc = "infer"])
            /\ UNCHANGED << isProcessing, monitorVars >>
  /\ UNCHANGED << sideVars, clockVars, isInitializing, nCaptures, storeVars,
                  serviceVars >>

\* loadImageFromDataUrl resolves or rejects. On success detectFaces is called
\* and runs to its first await: the lazy initialize(), or the inference.
LoadImageReturns(id, ok) ==
  /\ id \in At("load")
  /\ IF ~ok
       THEN /\ Returns(id, "loadfail")
            /\ isProcessing' = FALSE
            /\ UNCHANGED initCalls
       ELSE /\ UNCHANGED isProcessing
            /\ IF InitializeAwaits
                 THEN /\ Continues(id, [tasks[id] EXCEPT !.pc = "init"])
                      /\ initCalls' = initCalls \cup {InitCall("detectFaces", id)}
                 ELSE /\ Continues(id, [tasks[id] EXCEPT !.pc = "infer"])
                      /\ UNCHANGED initCalls
  /\ UNCHANGED << sideVars, clockVars, isInitializing, monitorVars, nCaptures, storeVars,
                  initialized, detectorLoads, embedderLoads, loadFailed,
                  nAddStudent >>

\* The inference of detectFaces returns. No qualifying region, or a throw of
\* the inference (caught, `return []`), ends the pass: "No faces detected".
\* Otherwise matchFaceWithStudents is called.
DetectReturns(id, found) ==
  /\ id \in At("infer")
  /\ IF found
       THEN /\ Continues(id, [tasks[id] EXCEPT !.pc = "match"])
            /\ UNCHANGED isProcessing
       ELSE /\ Returns(id, "nofaces")
            /\ isProcessing' = FALSE
  /\ UNCHANGED << sideVars, clockVars, isInitializing, monitorVars, nCaptures, storeVars,
                  serviceVars >>

\* A decision guard that forgets the empty class hour.
DecisionSuppressed_BreakOnly(t) == t.isBreak

\* The guard of checkAttendanceForMatches:
\* `if (isBreakTime || !currentClassHour) return;` read from the closure of t.
DecisionSuppressed(t) == t.isBreak \/ t.classHour = ""

\* matchFaceWithStudents returns ms and checkAttendanceForMatches(ms) runs
\* to its first await: the guard, then the attendance query of the first
\* match. With nothing to await the pass ends (finally: setIsProcessing(false)).
MatchReturns(id, ms) ==
  /\ id \in At("match")
  /\ IF DecisionSuppressed(tasks[id])
       THEN /\ Returns(id, IF ms = << >> THEN "nomatch" ELSE "suppressed")
            /\ isProcessing' = FALSE
       ELSE IF ms = << >>
              THEN /\ Returns(id, "nomatch")
                   /\ isProcessing' = FALSE
              ELSE /\ Continues(id, Deciding(tasks[id], ms, notifications))
                   /\ UNCHANGED isProcessing
  /\ UNCHANGED << sideVars, clockVars, isInitializing, monitorVars, nCaptures, storeVars,
                  serviceVars >>

\* A pass without the finally block: the decision ends and the guard stays.
NextMatch_NoFinally(id, stored) ==
  IF Len(tasks[id].matches) > 1
    THEN /\ Continues(id, Deciding(tasks[id], Tail(tasks[id].matches), stored))
         /\ UNCHANGED isProcessing
    ELSE /\ Returns(id, "decided")
         /\ UNCHANGED isProcessing

\* The loop of checkAttendanceForMatches goes on to the next match, or the
\* pass ends. stored is the notifications table after the step.
NextMatch(id, stored) ==
  IF Len(tasks[id].matches) > 1
    THEN /\ Continues(id, Deciding(tasks[id], Tail(tasks[id].matches), stored))
         /\ UNCHANGED isProcessing
    ELSE /\ Returns(id, "decided")
         /\ isProcessing' = FALSE

\* A catch block that is around the loop, not inside it.
LookupThrows_Abort(id) ==
  /\ Returns(id, "aborted")
  /\ isProcessing' = FALSE

\* A query of the current match throws: the catch block inside the loop logs
\* it and the loop goes on to the next match, or the pass ends.
LookupThrows(id) ==
  IF Len(tasks[id].matches) > 1
    THEN /\ Continues(id, [Deciding(tasks[id], Tail(tasks[id].matches),
                                    notifications) EXCEPT !.skipped = TRUE])
         /\ UNCHANGED isProcessing
    ELSE /\ Returns(id, "decided")
         /\ isProcessing' = FALSE

\* The attendance_records query of the current match returns.
AttendanceLookup(id, outcome) ==
  /\ id \in At("att")
  /\ IF outcome = "throw"
       THEN LookupThrows(id)
       ELSE /\ Continues(id, [tasks[id] EXCEPT
                  !.pc = "dl", !.failed = (outcome = "error"),
                  !.attEmpty = NoRows(QueryResult(
                      SelectRows(attendance_records, CurrentStudent(id),
                                 tasks[id].classHour), outcome))])
            /\ UNCHANGED isProcessing
  /\ UNCHANGED << sideVars, clockVars, isInitializing, monitorVars, nCaptures, storeVars,
                  serviceVars >>

\* The duty_leaves query of the current match returns; the notification
\* query is sent only if both attendance and duty leave are missing.
DutyLeaveLookup(id, outcome) ==
  /\ id \in At("dl")
  /\ IF outcome = "throw"
       THEN LookupThrows(id)
       ELSE IF BothMissing(tasks[id].attEmpty,
                           QueryResult(SelectRows(duty_leaves, CurrentStudent(id),
                                                  tasks[id].classHour), outcome))
              THEN /\ Continues(id, [tasks[id] EXCEPT !.pc = "notif",
                                       !.failed = @ \/ outcome = "error"])
                   /\ UNCHANGED isProcessing
              ELSE NextMatch(id, notifications)
  /\ UNCHANGED << sideVars, clockVars, isInitializing, monitorVars, nCaptures, storeVars,
                  serviceVars >>

\* `!existingNotification || existingNotification.length === 0`
NoExistingNotification(data) == NoRows(data)

\* The notifications query of the current match returns.
NotificationLookup(id, outcome) ==
  /\ id \in At("notif")
  /\ IF outcome = "throw"
       THEN LookupThrows(id)
       ELSE IF NoExistingNotification(
                 QueryResult(SelectRows(notifications, CurrentStudent(id),
                                        tasks[id].classHour), outcome))
              THEN /\ Continues(id, [tasks[id] EXCEPT !.pc = "insert",
                                       !.failed = @ \/ outcome = "error"])
                   /\ UNCHANGED isProcessing
              ELSE NextMatch(id, notifications)
  /\ UNCHANGED << sideVars, clockVars, isInitializing, monitorVars, nCaptures, storeVars,
                  serviceVars >>

\* The table after an insert of row: UNIQUE(student_id, date, class_hour)
\* rejects a second row of the same key.
InsertRow(table, row) ==
  IF Stored(table, row.student_id, row.class_hour) THEN table
  ELSE table \cup {row}

\* The insert into notifications reaches the table (delivered) or fails;
\* either way the loop goes on.
InsertNotification(id, delivered) ==
  /\ id \in At("insert")
  /\ LET row == [student_id |-> CurrentStudent(id),
                 class_hour |-> tasks[id].classHour]
         after == IF delivered THEN InsertRow(notifications, row)
                  ELSE notifications
     IN /\ notifications' = after
        /\ issued' = IF delivered
                       THEN [issued EXCEPT ![CurrentKey(id)] = @ + 1]
                       ELSE issued
        /\ NextMatch(id, after)
  /\ UNCHANGED << sideVars, clockVars, isInitializing, monitorVars, nCaptures,
                  recordVars, serviceVars >>

\* ---------------------------------------------------- calculateSimilarity
\* The loop of calculateSimilarity from index i on: the sum of a[k] * b[k]
\* for the indices k of a.
RECURSIVE SumProducts(_, _, _)
SumProducts(a, b, i) ==
  IF i > Len(a) THEN 0
  ELSE a[i] * b[i] + SumProducts(a, b, i + 1)

\* A zero test that looks at the first norm only.
ZeroNorm_First(n1, n2) == n1 = 0

\* `norm1 === 0 || norm2 === 0`, on the sums of squares n1 and n2 the norms
\* are the square roots of.
ZeroNorm(n1, n2) == n1 = 0 \/ n2 = 0

\* A denominator that takes the first norm twice.
NormProduct_First(n1, n2) == n1 * n1

\* The square of the denominator norm1 * norm2.
NormProduct(n1, n2) == n1 * n2

\* calculateSimilarity(embedding1, embedding2): the quotient
\* dotProduct / (norm1 * norm2) as the pair [dot, nn] with value
\* dot / sqrt(nn); nn = 0 stands for a division by zero.
calculateSimilarity(e1, e2) ==
  IF Len(e1) # Len(e2) THEN Zero
  ELSE LET dotProduct == SumProducts(e1, e2, 1)
           norm1 == SumProducts(e1, e1, 1)
           norm2 == SumProducts(e2, e2, 1)
       IN IF ZeroNorm(norm1, norm2) THEN Zero
          ELSE [dot |-> dotProduct, nn |-> NormProduct(norm1, norm2)]

\* x and y are the same number.
SameNumber(x, y) ==
  /\ (x.dot > 0) = (y.dot > 0)
  /\ (x.dot < 0) = (y.dot < 0)
  /\ x.dot * x.dot * y.nn = y.dot * y.dot * x.nn

\* The vectors the traced call of calculateSimilarity is given.
Components == {-1, 0, 1, 2}

Vectors == UNION {[1..n -> Components] : n \in 0..MaxDim}

\* The traced call of calculateSimilarity returns.
CalculateSimilarityReturns ==
  /\ ~returned
  /\ similarity' = calculateSimilarity(embedding1, embedding2)
  /\ returned' = TRUE
  /\ UNCHANGED << results, faces, embedding1, embedding2, faceEmbeddings,
                  studentList, matches, sessionVars, markingVars >>

\* ------------------------------------------------------------ detectFaces
\* A filter that keeps a score equal to the minimum. Scores are in tenths.
IsFace_Inclusive(result) == result.label = "person" /\ result.score >= 5

\* `result.label === 'person' && result.score > 0.5`
IsFace(result) == result.label = "person" /\ result.score > 5

\* results.filter(...).map(result => ({ box, score }))
detectFaces(rs) ==
  LET kept == SelectSeq(rs, IsFace)
  IN [k \in 1..Len(kept) |-> [box |-> kept[k].box, score |-> kept[k].score]]

\* What the detector reports for one region: scores 0.4, 0.5 and 0.6.
RawDetections == [label : {"person", "cat"}, score : {4, 5, 6}, box : {"b1", "b2"}]

RawResults == UNION {[1..n -> RawDetections] : n \in 0..MaxDetections}

\* The traced call of detectFaces returns, the service being initialized: the
\* faces filtered from the detector's results, or [] from the catch block
\* when the detector threw and results was never bound.
DetectFacesReturns ==
  /\ ~returned
  /\ initialized
  /\ \E threw \in BOOLEAN :
       /\ results' = (IF threw THEN << >> ELSE results)
       /\ faces' = (IF threw THEN << >> ELSE detectFaces(results))
  /\ returned' = TRUE
  /\ UNCHANGED << embedding1, embedding2, similarity, faceEmbeddings,
                  studentList, matches, sessionVars, markingVars >>

\* -------------------------------------------------- matchFaceWithStudents
\* x > y on similarities (nn is positive in both).
Greater(x, y) ==
  IF x.dot <= 0
    THEN y.dot < 0 /\ x.dot * x.dot * y.nn < y.dot * y.dot * x.nn
    ELSE y.dot <= 0 \/ x.dot * x.dot * y.nn > y.dot * y.dot * x.nn

\* `const threshold = 0.7`: 7 / sqrt(100).
threshold == [dot |-> 7, nn |-> 100]

\* A threshold test that lets the threshold itself pass.
AboveThreshold_Inclusive(sim) == ~Greater(threshold, sim)

\* `similarity > threshold`
AboveThreshold(sim) == Greater(sim, threshold)

\* An inner loop without the face_encoding test: calculateSimilarity reads
\* .length of the missing face_encoding, and the TypeError leaves the loop for
\* the catch block of the face.
RECURSIVE CompareStudents_Unguarded(_, _, _)
CompareStudents_Unguarded(e, sl, j) ==
  IF j > Len(sl) \/ ~sl[j].has THEN << >>
  ELSE LET sim == calculateSimilarity(e, sl[j].face_encoding)
       IN (IF AboveThreshold(sim)
             THEN << [student |-> sl[j].id, confidence |-> sim] >> ELSE << >>)
            \o CompareStudents_Unguarded(e, sl, j + 1)

\* The inner loop for the face embedding e, from student j of sl on: the
\* matches pushed, in order. A student without face_encoding is passed over.
RECURSIVE CompareStudents(_, _, _)
CompareStudents(e, sl, j) ==
  IF j > Len(sl) THEN << >>
  ELSE LET rest == CompareStudents(e, sl, j + 1)
           sim == calculateSimilarity(e, sl[j].face_encoding)
       IN IF sl[j].has /\ AboveThreshold(sim)
            THEN << [student |-> sl[j].id, confidence |-> sim] >> \o rest
            ELSE rest

\* An outer loop that ends at the first face without an embedding.
RECURSIVE CollectMatches_Abort(_, _, _)
CollectMatches_Abort(fe, sl, i) ==
  IF i > Len(fe) \/ Len(fe[i]) = 0 THEN << >>
  ELSE CompareStudents(fe[i], sl, 1) \o CollectMatches_Abort(fe, sl, i + 1)

\* The outer loop from face i on. fe[i] is what extractFaceEmbedding returned
\* for region i; the empty vector (the embedder failed) is passed over.
RECURSIVE CollectMatches(_, _, _)
CollectMatches(fe, sl, i) ==
  IF i > Len(fe) THEN << >>
  ELSE (IF Len(fe[i]) = 0 THEN << >> ELSE CompareStudents(fe[i], sl, 1))
         \o CollectMatches(fe, sl, i + 1)

\* A deduplication that keeps the first match of a student.
Replaces_Never(new, old) == FALSE

\* `match.confidence > uniqueMatches[studentId].confidence`
Replaces(new, old) == Greater(new.confidence, old.confidence)

\* uniqueMatches after the matches ms[k..] have been entered into acc; acc
\* lists the entries in the order of their keys, the order of Object.values.
RECURSIVE Deduplicate(_, _, _)
Deduplicate(ms, k, acc) ==
  IF k > Len(ms) THEN acc
  ELSE LET m == ms[k]
           at == {p \in 1..Len(acc) : acc[p].student = m.student}
       IN Deduplicate(ms, k + 1,
            IF at = {} THEN Append(acc, m)
            ELSE LET p == CHOOSE q \in at : TRUE
                 IN IF Replaces(m, acc[p]) THEN [acc EXCEPT ![p] = m] ELSE acc)

\* matchFaceWithStudents(detectedFaces, imageElement, students), given the
\* embedding of each detected face.
matchFaceWithStudents(fe, sl) ==
  Deduplicate(CollectMatches(fe, sl, 1), 1, << >>)

\* The reference embeddings of the traced call and a face_encoding of another
\* length. With << 1, 0, 0, 0 >> the similarities are 1, 7/10, 8/10 and 6/10.
Encodings ==
  {<< 1, 0, 0, 0 >>, << 7, 1, 5, 5 >>, << 4, 3, 0, 0 >>, << 3, 4, 0, 0 >>, << 1, 0 >>}

\* A row of students with face_encoding v, or without one.
StudentRow(id, v) == [id |-> id, has |-> TRUE, face_encoding |-> v]

StudentRows(id) ==
  {StudentRow(id, v) : v \in Encodings}
    \cup {[id |-> id, has |-> FALSE, face_encoding |-> << >>]}

\* The students arguments: no student, s1, or s1 and s2.
StudentLists ==
  {<< >>} \cup {<< r >> : r \in StudentRows("s1")}
          \cup {<< r1, r2 >> : r1 \in StudentRows("s1"), r2 \in StudentRows("s2")}

\* What the embedder does for the crop of a region: it throws, or it returns
\* a tensor with these data.
EmbedderOutcomes ==
  {[threw |-> TRUE, data |-> << >>]}
    \cup {[threw |-> FALSE, data |-> v] : v \in {<< 1, 0, 0, 0 >>, << 4, 3, 0, 0 >>}}

\* extractFaceEmbedding, the service being initialized:
\* Array.from(result.data), or [] from the catch block.
extractFaceEmbedding(o) == IF o.threw THEN << >> ELSE o.data

\* What extractFaceEmbedding returns for a region: an embedding, or [] when
\* the embedder failed.
ProbeEmbeddings == {extractFaceEmbedding(o) : o \in EmbedderOutcomes}

FaceEmbeddingLists == UNION {[1..n -> ProbeEmbeddings] : n \in 0..MaxFaces}

\* The traced call of matchFaceWithStudents returns.
MatchFaceWithStudentsReturns ==
  /\ ~returned
  /\ matches' = matchFaceWithStudents(faceEmbeddings, studentList)
  /\ returned' = TRUE
  /\ UNCHANGED << results, faces, embedding1, embedding2, similarity,
                  faceEmbeddings, studentList, sessionVars, markingVars >>

\* ---------------------------------------------------- AttendanceMarking
\* The class windows of AttendanceMarking (it lists no breaks).
markingSchedules ==
  << [start |-> HHMM(9, 0),   end |-> HHMM(10, 0),  time |-> "09:00:00"],
     [start |-> HHMM(10, 0),  end |-> HHMM(10, 45), time |-> "10:00:00"],
     [start |-> HHMM(11, 0),  end |-> HHMM(12, 0),  time |-> "11:00:00"],
     [start |-> HHMM(12, 0),  end |-> HHMM(12, 45), time |-> "12:00:00"],
     [start |-> HHMM(13, 30), end |-> HHMM(14, 30), time |-> "13:30:00"],
     [start |-> HHMM(14, 30), end |-> HHMM(15, 30), time |-> "14:30:00"],
     [start |-> HHMM(15, 45), end |-> HHMM(16, 20), time |-> "15:45:00"] >>

\* schedules.find(...) of AttendanceMarking: the index of the first window
\* containing t, 0 when there is none.
RECURSIVE FindMarkingSchedule(_, _)
FindMarkingSchedule(t, i) ==
  IF i > Len(markingSchedules) THEN 0
  ELSE IF /\ StrLeq(TimeString(markingSchedules[i].start), TimeString(t))
          /\ StrLeq(TimeString(t), TimeString(markingSchedules[i].end))
         THEN i
  ELSE FindMarkingSchedule(t, i + 1)

\* What AttendanceMarking.updateCurrentClassHour leaves in currentClassHour
\* when it held held and the clock reads t:
\* `if (currentSchedule) { setCurrentClassHour(currentSchedule.time); }`
MarkingResolve(held, t) ==
  LET i == FindMarkingSchedule(t, 1)
  IN IF i # 0 THEN markingSchedules[i].time ELSE held

\* AttendanceMarking has been mounted at clock reading t: the mount effect
\* has run updateCurrentClassHour on the initial state.
MarkingMounted(t) ==
  /\ markingNow = t
  /\ markingClassHour = MarkingResolve("", t)
  /\ attendance = [s \in Students |-> ""]
  /\ dutyLeaves = [s \in Students |-> FALSE]
  /\ loading = FALSE

\* AttendanceMarking.updateCurrentClassHour, run by its one-minute interval.
markingUpdateCurrentClassHour(t) ==
  /\ t > markingNow
  /\ markingNow' = t
  /\ markingClassHour' = MarkingResolve(markingClassHour, t)
  /\ UNCHANGED << attendance, dutyLeaves, loading, sessionVars, callVars >>

\* markAttendance(studentId, status)
markAttendance(s, status) ==
  /\ attendance' = [attendance EXCEPT ![s] = status]
  /\ dutyLeaves' = IF status = "present"
                     THEN [dutyLeaves EXCEPT ![s] = FALSE]
                     ELSE dutyLeaves
  /\ UNCHANGED << markingNow, markingClassHour, loading, sessionVars, callVars >>

\* markDutyLeave(studentId, hasLeave)
markDutyLeave(s, hasLeave) ==
  /\ dutyLeaves' = [dutyLeaves EXCEPT ![s] = hasLeave]
  /\ attendance' = IF hasLeave
                     THEN [attendance EXCEPT ![s] = ""]
                     ELSE attendance
  /\ UNCHANGED << markingNow, markingClassHour, loading, sessionVars, callVars >>

\* The guard of submitAttendance: `if (!currentClassHour) { toast; return; }`
SubmitRefused == markingClassHour = ""

\* The table after the upserts of rows, one after the other: an upsert
\* without onConflict is an insert, which UNIQUE(student_id, date, class_hour)
\* rejects for a key that is stored.
RECURSIVE UpsertRows(_, _)
UpsertRows(table, rows) ==
  IF rows = {} THEN table
  ELSE LET r == CHOOSE x \in rows : TRUE
       IN UpsertRows(InsertRow(table, r), rows \ {r})

\* submitAttendance up to its await: setLoading(true) and one upsert for each
\* student with a status and for each student with the duty-leave flag, all
\* with the held class hour. A refused call changes nothing.
submitAttendance ==
  /\ ~SubmitRefused
  /\ loading' = TRUE
  /\ attendance_records' = UpsertRows(attendance_records,
       {[student_id |-> s, class_hour |-> markingClassHour,
         status |-> attendance[s]] : s \in {x \in Students : attendance[x] # ""}})
  /\ duty_leaves' = UpsertRows(duty_leaves,
       {[student_id |-> s, class_hour |-> markingClassHour] :
          s \in {x \in Students : dutyLeaves[x]}})
  /\ UNCHANGED << markingNow, markingClassHour, attendance, dutyLeaves,
                  clockVars, isProcessing, isInitializing, monitorVars,
                  taskVars, notifications, issued, students, serviceVars,
                  callVars >>

\* Promise.all resolves: the forms are reset, finally setLoading(false).
SubmitReturns ==
  /\ loading
  /\ loading' = FALSE
  /\ attendance' = [s \in Students |-> ""]
  /\ dutyLeaves' = [s \in Students |-> FALSE]
  /\ UNCHANGED << markingNow, markingClassHour, sessionVars, callVars >>

\* ------------------------------------------------------------------- Next
\* The steps of an invocation, from the photo to the end of the decision.
PassStep ==
  \/ \E id \in TaskIds, o \in {"dataUrl", "empty", "throw"} : GetPhotoReturns(id, o)
  \/ \E id \in TaskIds, ok \in BOOLEAN : LoadImageReturns(id, ok)
  \/ \E id \in TaskIds, found \in BOOLEAN : DetectReturns(id, found)
  \/ \E id \in TaskIds, ms \in MatchLists : MatchReturns(id, ms)
  \/ \E id \in TaskIds, o \in LookupOutcomes : AttendanceLookup(id, o)
  \/ \E id \in TaskIds, o \in LookupOutcomes : DutyLeaveLookup(id, o)
  \/ \E id \in TaskIds, o \in LookupOutcomes : NotificationLookup(id, o)
  \/ \E id \in TaskIds, d \in BOOLEAN : InsertNotification(id, d)

\* The requests of the user and of the interval timers.
MonitorStep ==
  \/ startMonitoring
  \/ stopMonitoring
  \/ \E i \in DOMAIN timers : Tick(i)
  \/ manualCapture

ServiceStep ==
  \/ \E c \in initCalls, ok \in BOOLEAN : LoadDetector(c, ok)
  \/ \E c \in initCalls, ok \in BOOLEAN : LoadEmbedder(c, ok)
  \/ AddStudentInitialize

Next ==
  \/ \E t \in ClockTimes : updateCurrentClassHour(t)
  \/ Unmount
  \/ ServiceStep
  \/ MonitorStep
  \/ PassStep

\* The whole program, from the mount.
Spec == Init /\ [][Next]_vars

\* The decision: the service is ready, the clock stays in the first class
\* window, the tables hold any rows of that class hour.
InitDecision ==
  /\ Mounted(HHMM(9, 0))
  /\ ServiceReady
  /\ SideIdle
  /\ Tables(Students, MaxRecords, {ResolveSchedule(HHMM(9, 0)).classHour})

NextDecision == MonitorStep \/ PassStep

SpecDecision == InitDecision /\ [][NextDecision]_vars

\* One batch decision after another: as SpecDecision, with manual captures
\* only (two of them may still overlap).
NextBatch == manualCapture \/ PassStep

SpecBatch == InitDecision /\ [][NextBatch]_vars

\* SpecBatch where every await settles: the camera, the image load, the
\* inference and every query resolve or reject, so an invocation in flight
\* takes its next step.
SpecBatchFair == SpecBatch /\ WF_vars(PassStep)

\* The monitoring loop over the day: the service is ready, one enrolled
\* student without rows, the clock visits every reading.
InitLoop ==
  /\ Mounted(HHMM(9, 0))
  /\ ServiceReady
  /\ SideIdle
  /\ Tables({"s1"}, 0, {})

NextLoop ==
  \/ \E t \in ClockTimes : updateCurrentClassHour(t)
  \/ MonitorStep
  \/ PassStep

SpecLoop == InitLoop /\ [][NextLoop]_vars

\* The monitoring session on its own, up to the unmount: as SpecLoop, without
\* manual captures, so that every invocation is one of the interval callback.
NextSession ==
  \/ \E t \in ClockTimes : updateCurrentClassHour(t)
  \/ startMonitoring
  \/ stopMonitoring
  \/ Unmount
  \/ \E i \in DOMAIN timers : Tick(i)
  \/ PassStep

SpecSession == InitLoop /\ [][NextSession]_vars

\* The initialization of the service: from the mount, with one enrolled
\* student without rows, the clock in the first class window.
InitService ==
  /\ Mounted(HHMM(9, 0))
  /\ ServiceLoading
  /\ SideIdle
  /\ Tables({"s1"}, 0, {})

NextService == ServiceStep \/ MonitorStep \/ PassStep

SpecService == InitService /\ [][NextService]_vars

\* The schedule resolution: the component mounts at any minute of the day and
\* the minute timer re-resolves every minute, or later when it is delayed.
InitSchedule ==
  /\ \E t \in Minutes : Mounted(t)
  /\ ServiceReady
  /\ SideIdle
  /\ Tables({"s1"}, 0, {})

NextSchedule ==
  \E t \in Minutes : t <= now + MaxSkip /\ updateCurrentClassHour(t)

SpecSchedule == InitSchedule /\ [][NextSchedule]_vars

\* Attendance marking over the day: AttendanceMarking mounted in the first
\* class window, one enrolled student, empty tables.
InitMarking ==
  /\ Mounted(HHMM(9, 0))
  /\ ServiceReady
  /\ Tables({"s1"}, 0, {})
  /\ MarkingMounted(HHMM(9, 0))
  /\ NoCall

NextMarking ==
  \/ \E t \in ClockTimes : markingUpdateCurrentClassHour(t)
  \/ \E s \in students, status \in {"present", "absent"} : markAttendance(s, status)
  \/ \E s \in students, hasLeave \in BOOLEAN : markDutyLeave(s, hasLeave)
  \/ submitAttendance
  \/ SubmitReturns

SpecMarking == InitMarking /\ [][NextMarking]_vars

\* The monitor mounted and idle, AttendanceMarking not mounted: the state
\* in which one call of the service is traced.
Idle ==
  /\ Mounted(HHMM(9, 0))
  /\ ServiceReady
  /\ Tables({"s1"}, 0, {})
  /\ MarkingUnmounted

\* calculateSimilarity on every pair of vectors.
InitSimilarity ==
  /\ Idle
  /\ \E e1, e2 \in Vectors : Call(<< >>, e1, e2, << >>, << >>)

SpecSimilarity == InitSimilarity /\ [][CalculateSimilarityReturns]_vars

\* matchFaceWithStudents on every list of face embeddings and of students.
InitMatch ==
  /\ Idle
  /\ \E fe \in FaceEmbeddingLists, sl \in StudentLists :
       Call(<< >>, << >>, << >>, fe, sl)

SpecMatch == InitMatch /\ [][MatchFaceWithStudentsReturns]_vars

\* detectFaces on every list of raw detections.
InitDetect ==
  /\ Idle
  /\ \E rs \in RawResults : Call(rs, << >>, << >>, << >>, << >>)

SpecDetect == InitDetect /\ [][DetectFacesReturns]_vars

\* ----------------------------------------------------------------- claims
\* The invocations the next state adds.
Created == {id \in DOMAIN tasks' : id \notin TaskIds}

\* The invocation id starts a pipeline pass in this step: it sets the guard.
StartsPass(id) ==
  /\ tasks[id].pc = "photo"
  /\ id \in DOMAIN tasks'
  /\ tasks'[id].pc = "load"

\* C1: over any interleaving of passes on one date, at most one notification
\* insert is issued per (student, class_hour): none for a key that is already
\* stored or for which another pass has already issued one.
C1_AtMostOneInsertPerKey ==
  \A k \in DOMAIN issued : issued[k] <= 1

\* C2: passes started by the interval timer never overlap: at any time at most
\* one invocation of the interval callback is between setting and releasing
\* the processing guard.
C2_TickPassesNeverOverlap ==
  Cardinality({id \in InPass : tasks[id].origin = "tick"}) <= 1

\* C3: while the schedule state resolves to a break or to no active class, a
\* tick of the interval timer captures no frame (and so runs no pass and
\* emits no alert).
C3_SuppressedTickCapturesNothing ==
  [][(isBreakTime \/ currentClassHour = "") =>
       \A id \in Created : tasks'[id].origin # "tick"]_vars

\* C4: if is_break is true or the class hour is empty, checkAttendanceForMatches
\* returns immediately: an invocation whose decision reads such values never
\* has a lookup or an insert in flight.
C4_SuppressedDecisionDoesNothing ==
  \A id \in TaskIds :
    (tasks[id].isBreak \/ tasks[id].classHour = "") =>
      tasks[id].pc \notin DecisionPcs

\* C4 witness: a decision with a non-empty list of matches has returned at
\* its guard.
C4_Witness == lastResult = "suppressed"

\* C5: once the alert for (identity, date, class_hour) is stored, a decision
\* of the same match that begins afterwards emits no alert for it, however
\* many passes run (idempotent suppression). (That an identity without any
\* row is alerted once is the same code path; that an identity with only an
\* 'absent' row is not alerted is claim C7.)
C5_IdempotentSuppression ==
  \A id \in At("insert") : ~tasks[id].had

\* C6: for a matched identity with a valid excuse (a present record or a
\* duty leave) for (identity, date, class_hour), the decision emits no alert.
C6_NoAlertWithExcuse ==
  \A id \in At("insert") :
    ~HasValidExcuse(CurrentStudent(id), tasks[id].classHour)

\* C7: the excuse predicate of the decision is 'a present attendance record or
\* a duty leave exists': an attendance row found for an identity whose only
\* row is 'absent' does not count as an excuse.
C7_AbsentIsNoExcuse ==
  \A id \in At("dl") :
    OnlyAbsent(CurrentStudent(id), tasks[id].classHour) => tasks[id].attEmpty

\* C8: after stopMonitoring, and until monitoring is started again, no
\* callback of the interval timer starts a capture or a pipeline pass.
C8_NoTickWorkAfterStop ==
  [][~isMonitoring =>
       /\ \A id \in Created : tasks'[id].origin # "tick"
       /\ \A id \in TaskIds : tasks[id].origin = "tick" => ~StartsPass(id)]_vars

\* C9: manual captures and automatic ticks are mutually exclusive: a pass of
\* a manual capture and a pass of a tick are never in flight together.
C9_ManualAndTickExclusive ==
  ~ \E a, b \in InPass :
      tasks[a].origin = "manual" /\ tasks[b].origin = "tick"

\* C10: over any interleaving of initialize() calls, the detector and the
\* embedder are each loaded at most once as long as no load fails.
C10_LoadedAtMostOnce ==
  ~loadFailed => (detectorLoads <= 1 /\ embedderLoads <= 1)

\* C11: if model initialization has failed and has not since succeeded, a
\* start request does not start monitoring: no step turns isMonitoring on or
\* creates an interval timer while the service is in that condition.
C11_NoStartAfterFailedInit ==
  [][(loadFailed /\ ~initialized) =>
       /\ ~(isMonitoring' /\ ~isMonitoring)
       /\ DOMAIN timers' \subseteq DOMAIN timers]_vars

\* The decision of the current match of invocation id ends in this step.
DecisionEnds(id) ==
  id \notin DOMAIN tasks' \/ tasks'[id].matches # tasks[id].matches

\* C12: a lookup failure while deciding one match does not abort the batch:
\* whenever the decision of a match ends, by a failure or not, while later
\* matches remain, the invocation goes on to the next match in exactly the
\* state in which a decision over the remaining matches alone starts, and it
\* has touched no notification of another identity.
C12_FailureDoesNotAbortBatch ==
  [][\A id \in TaskIds :
       (tasks[id].pc \in DecisionPcs /\ Len(tasks[id].matches) > 1
          /\ DecisionEnds(id)) =>
         /\ id \in DOMAIN tasks'
         /\ tasks'[id].pc = "att"
         /\ tasks'[id].matches = Tail(tasks[id].matches)
         /\ ~tasks'[id].failed
         /\ ~tasks'[id].attEmpty
         /\ tasks'[id].had =
              Stored(notifications', Head(tasks'[id].matches), tasks[id].classHour)
         /\ \A r \in notifications' \ notifications :
              r.student_id = CurrentStudent(id)]_vars

\* C12 witness: after a thrown lookup skipped an earlier match, a later match
\* of the same list has been decided up to its alert.
C12_Witness ==
  \E id \in At("insert") : tasks[id].skipped

\* C13: a matched identity for which an attendance, duty-leave or notification
\* lookup fails is skipped for the pass: no alert is emitted for it, whether
\* the lookup throws or resolves to an error result without data.
C13_FailedLookupSkipsIdentity ==
  \A id \in At("insert") : ~tasks[id].failed

\* The windows that contain minute t, ends included.
Containing(t) ==
  {i \in 1..Len(schedules) : schedules[i].start <= t /\ t <= schedules[i].end}

\* C14: for every minute t the resolution yields the label and break flag of
\* the first window in configured order with start <= t <= end; t equal to a
\* window's end resolves to that window (the earlier-listed one where two
\* windows share the minute); one minute past an end it yields the next
\* window, or nothing after the last; with no window the class hour is empty
\* and is_break is false.
C14_FirstContainingWindow ==
  /\ Containing(now) = {} => (currentClassHour = "" /\ ~isBreakTime)
  /\ Containing(now) # {} =>
       LET first == CHOOSE i \in Containing(now) : \A j \in Containing(now) : i <= j
       IN /\ currentClassHour = schedules[first].time
          /\ isBreakTime = schedules[first].isBreak
  /\ \A i \in 1..Len(schedules) :
       /\ now = schedules[i].end => currentClassHour = schedules[i].time
       /\ now = schedules[i].end + 1 =>
            currentClassHour =
              IF i < Len(schedules) THEN schedules[i + 1].time ELSE ""

\* C14 witness: the minute timer has re-resolved at 10:00, the end of the
\* first window and the start of the second, to the first window.
C14_Witness ==
  /\ now = HHMM(10, 0)
  /\ currentClassHour = "09:00:00"
  /\ ~isBreakTime

\* The label of the class window of AttendanceMarking that contains minute
\* t, "" when none does.
MarkingWindow(t) ==
  LET W == {i \in 1..Len(markingSchedules) :
              markingSchedules[i].start <= t /\ t <= markingSchedules[i].end}
  IN IF W = {} THEN ""
     ELSE markingSchedules[CHOOSE i \in W : \A j \in W : i <= j].time

\* C15: attendance marking is available only during class hours: the hour
\* AttendanceMarking holds after a re-resolution is the label of the class
\* window containing the time, so submitAttendance writes attendance and
\* duty-leave rows only while the latest resolved time lies inside a class
\* window, and always with that window's label.
C15_MarkingOnlyInClassWindow ==
  [][\A r \in (attendance_records' \ attendance_records)
               \cup (duty_leaves' \ duty_leaves) :
       /\ MarkingWindow(markingNow) # ""
       /\ r.class_hour = MarkingWindow(markingNow)]_vars

\* Every component of e is 0 (so is the norm; the empty vector included).
IsZeroVector(e) == \A i \in DOMAIN e : e[i] = 0

\* C18: calculateSimilarity returns exactly 0 whenever either vector has zero
\* norm (two empty vectors included) or the lengths differ, and it never
\* divides by zero.
C18_ZeroWithoutDivision ==
  returned =>
    /\ similarity.nn # 0
    /\ (\/ Len(embedding1) # Len(embedding2)
        \/ IsZeroVector(embedding1)
        \/ IsZeroVector(embedding2)) => similarity = Zero

\* C18 witness: the call has returned 0 for a zero vector and a non-zero
\* vector of the same length.
C18_Witness ==
  /\ returned
  /\ Len(embedding1) = Len(embedding2)
  /\ ~IsZeroVector(embedding1)
  /\ IsZeroVector(embedding2)
  /\ similarity = Zero

\* C19: calculateSimilarity is symmetric: for vectors of equal or different
\* lengths the call with the arguments exchanged returns the same number.
C19_Symmetric ==
  returned =>
    SameNumber(similarity, calculateSimilarity(embedding2, embedding1))

\* C19 witness: the call has returned a non-zero similarity for two vectors
\* of different norms.
C19_Witness ==
  /\ returned
  /\ similarity.dot # 0
  /\ SumProducts(embedding1, embedding1, 1) # SumProducts(embedding2, embedding2, 1)

\* The similarities computed for student s in the traced call of
\* matchFaceWithStudents: one for each embedded region and each row of s that
\* has a reference embedding.
ComputedFor(s) ==
  {calculateSimilarity(faceEmbeddings[i], studentList[j].face_encoding) :
     i \in {a \in 1..Len(faceEmbeddings) : Len(faceEmbeddings[a]) # 0},
     j \in {b \in 1..Len(studentList) :
              studentList[b].id = s /\ studentList[b].has}}

\* x is strictly greater than 7/10.
Over07(x) == x.dot > 0 /\ 100 * x.dot * x.dot > 49 * x.nn

\* C16: the list matchFaceWithStudents returns holds at most one match per
\* student id, and the confidence of each is the maximum of the
\* above-threshold similarities computed for that student over all regions.
C16_OneMatchOfMaximalConfidence ==
  returned =>
    /\ \A i, j \in 1..Len(matches) :
         matches[i].student = matches[j].student => i = j
    /\ \A i \in 1..Len(matches) :
         /\ \E x \in ComputedFor(matches[i].student) :
              Over07(x) /\ SameNumber(x, matches[i].confidence)
         /\ \A x \in ComputedFor(matches[i].student) :
              ~Greater(x, matches[i].confidence)

\* C16 witness: two regions matched the same student, the second with the
\* higher similarity, and the returned list holds that student once.
C16_Witness ==
  /\ returned
  /\ Len(matches) = 1
  /\ faceEmbeddings = << << 1, 0, 0, 0 >>, << 4, 3, 0, 0 >> >>
  /\ studentList = << StudentRow("s1", << 4, 3, 0, 0 >>) >>
  /\ SameNumber(matches[1].confidence, [dot |-> 1, nn |-> 1])

\* C17: a student is in the list matchFaceWithStudents returns if and only if
\* some region's embedding has a similarity strictly greater than 0.7 with the
\* student's reference embedding; a similarity of exactly 0.7 gives no match.
C17_StrictThreshold ==
  returned =>
    \A k \in 1..Len(studentList) :
      (\E i \in 1..Len(matches) : matches[i].student = studentList[k].id)
        <=> (\E x \in ComputedFor(studentList[k].id) : Over07(x))

\* C17 witness: the only similarity computed is exactly 0.7 and the returned
\* list is empty.
C17_Witness ==
  /\ returned
  /\ faceEmbeddings = << << 1, 0, 0, 0 >> >>
  /\ studentList = << StudentRow("s1", << 7, 1, 5, 5 >>) >>
  /\ matches = << >>

\* The positions of the raw detections labelled 'person' with a score over 0.5.
Qualifying ==
  {i \in 1..Len(results) : results[i].label = "person" /\ results[i].score > 5}

\* C20: detectFaces returns exactly the raw detections labelled 'person' with
\* a score strictly greater than 0.5, in their original order, each reduced to
\* box and score; a score of exactly 0.5 or another label is left out.
C20_PersonsOverHalfInOrder ==
  returned =>
    /\ Len(faces) = Cardinality(Qualifying)
    /\ \A i \in Qualifying :
         faces[Cardinality({j \in Qualifying : j <= i})]
           = [box |-> results[i].box, score |-> results[i].score]

\* C20 witness: of a 'person' at 0.5, and a 'person' at 0.6, only the second
\* is returned.
C20_Witness ==
  /\ returned
  /\ results = << [label |-> "person", score |-> 5, box |-> "b1"],
                  [label |-> "person", score |-> 6, box |-> "b2"] >>
  /\ faces = << [box |-> "b2", score |-> 6] >>

\* C21: detectFaces never returns an error to its caller: whenever a call of
\* detectFaces ends the pass (during its lazy initialize() or at its
\* inference), it has returned the empty sequence and the pass ends as
\* "no faces detected", also when the initialization it triggered fails.
C21_DetectFacesNeverRejects ==
  [][\A id \in TaskIds :
       (tasks[id].pc \in {"init", "infer"} /\ id \notin DOMAIN tasks') =>
         lastResult' = "nofaces"]_vars

\* The regions of the traced call for which an embedding was produced.
Embedded == SelectSeq(faceEmbeddings, LAMBDA e : Len(e) # 0)

\* C22: when the embedder fails for a region, extractFaceEmbedding returns
\* the empty vector instead of raising and matchFaceWithStudents skips the
\* region: the list returned is the one the other regions alone give, so the
\* failed region contributes no match and every other region is still compared.
C22_FailedRegionSkipped ==
  /\ \A o \in EmbedderOutcomes : o.threw => extractFaceEmbedding(o) = << >>
  /\ returned =>
       /\ matches = matchFaceWithStudents(Embedded, studentList)
       /\ \A i \in 1..Len(matches) :
            \E x \in ComputedFor(matches[i].student) :
              SameNumber(x, matches[i].confidence)

\* C22 witness: the embedder failed for the first region and the second
\* region has still matched a student.
C22_Witness ==
  /\ returned
  /\ faceEmbeddings = << << >>, << 1, 0, 0, 0 >> >>
  /\ Len(matches) = 1

\* The rows of the students argument that have a reference embedding.
WithEncoding == SelectSeq(studentList, LAMBDA r : r.has)

\* C23: a student without a reference embedding never appears in the list
\* matchFaceWithStudents returns and never causes an error, whatever the
\* regions: the list is the one the other students alone give; with no
\* student the list is empty.
C23_NoEncodingNeverMatched ==
  returned =>
    /\ \A k \in 1..Len(studentList) :
         ~studentList[k].has =>
           \A i \in 1..Len(matches) : matches[i].student # studentList[k].id
    /\ matches = matchFaceWithStudents(faceEmbeddings, WithEncoding)
    /\ studentList = << >> => matches = << >>

\* C23 witness: the first student has no reference embedding and the second
\* student has still been matched.
C23_Witness ==
  /\ returned
  /\ Len(studentList) = 2
  /\ ~studentList[1].has
  /\ Len(matches) = 1
  /\ matches[1].student = "s2"

C25_AlertCarriesCurrentLabel ==
  [][/\ \A id \in Created : tasks'[id].classHour = currentClassHour
     /\ \A r \in notifications' \ notifications :
          \E id \in At("insert") : r.class_hour = tasks[id].classHour]_vars

\* C26: the processing guard cannot starve the loop: while monitoring is
\* active, the schedule state resolves to an active class and no pass is in
\* flight, an invocation of the interval callback that obtains a frame is not
\* turned away by the guard - also when monitoring was started while a manual
\* capture was in flight and that manual pass has finished.
C26_GuardDoesNotStarveTicks ==
  [][\A id \in At("photo") :
       (/\ tasks[id].origin = "tick"
        /\ isMonitoring
        /\ ~isBreakTime /\ currentClassHour # ""
        /\ InPass = {}
        /\ id \notin DOMAIN tasks') => lastResult' # "refused"]_vars

\* C28: after any sequence of start requests, stop requests and the unmount
\* at most one periodic monitoring timer is live, and none is live after a
\* stop (monitoring is off) or after the unmount.
C28_NoTimerLeak ==
  /\ Cardinality(DOMAIN timers) <= 1
  /\ (~isMonitoring \/ ~mounted) => DOMAIN timers = {}

\* C27: every pass that sets the processing guard eventually releases it:
\* a pass in flight ends, the step that ends it - completed, no faces, or
\* failed at image load, detection, matching or decision - sets isProcessing
\* to false, and the guard is never set while no pass is running.
C27_GuardReleased ==
  /\ [](InPass = {} => ~isProcessing)
  /\ [][\A id \in InPass : id \notin DOMAIN tasks' => ~isProcessing']_vars
  /\ \A id \in 1..MaxCaptures : (id \in InPass) ~> (id \notin InPass)

\* C27 witness: a pass has failed at the image load, no pass is running and
\* the guard is released.
C27_Witness ==
  /\ lastResult = "loadfail"
  /\ tasks = << >>
  /\ ~isProcessing

\* C29: in AttendanceMarking, after any sequence of markAttendance and
\* markDutyLeave calls no student has both a non-empty attendance status
\* (present or absent) and the duty-leave flag, so no submission writes an
\* attendance row and a duty-leave row for the same student.
C29_StatusExcludesDutyLeave ==
  /\ [](\A s \in Students : ~(attendance[s] # "" /\ dutyLeaves[s]))
  /\ [][\A s \in Students :
          ~ /\ \E r \in attendance_records' \ attendance_records : r.student_id = s
            /\ \E r \in duty_leaves' \ duty_leaves : r.student_id = s]_vars

\* initializeFaceRecognition, called by the mount effect, is awaiting
\* faceRecognitionService.initialize().
InitializationInProgress == \E c \in initCalls : c.caller = "monitor"

\* C30: a start request made while the model initialization is in progress
\* is rejected and changes nothing: startMonitoring cannot take its step
\* then, and no step taken meanwhile turns isMonitoring on, creates a periodic
\* timer or changes the ref.
C30_StartRefusedWhileInitializing ==
  /\ [](InitializationInProgress => (~ENABLED startMonitoring /\ ~isMonitoring))
  /\ [][InitializationInProgress =>
          /\ ~isMonitoring'
          /\ timers' = timers
          /\ monitoringIntervalRef' = monitoringIntervalRef
          /\ nStarts' = nStarts]_vars

\* C30 witness: the detector is loaded, the embedder is still loading, a
\* start request is refused, and monitoring is off without any timer.
C30_Witness ==
  /\ InitializationInProgress
  /\ detectorLoads = 1
  /\ StartRefused
  /\ ~isMonitoring
  /\ timers = << >>

====
